---------------------------- MODULE Spec2Model ----------------------------
(***************************************************************************)
(* Event distribution and client-side reconciliation of opencode-web.      *)
(*                                                                         *)
(* Two state machines share this module:                                   *)
(*   - the Reconciler that ingests the frames of the event stream and      *)
(*     maintains the local store (current session, its messages and their  *)
(*     parts, the permission requests), as src/EVENTS.md describes the     *)
(*     handling of every event type;                                       *)
(*   - the GET /event handler (src/EVENTS.md lines 14-39) that turns one   *)
(*     Bus subscription into a stream of frames written to a sink.         *)
(*                                                                         *)
(* Identifiers are strings compared with the ordinary string comparison;   *)
(* a string is modelled as the sequence of its character codes.            *)
(***************************************************************************)
EXTENDS Integers, Sequences, FiniteSets, TLC

VARIABLES
    store,      \* the reconciled local store (Reconciler side)
    arrival,    \* the frames ingested so far, in arrival order (permutation runs)
    subs,       \* Bus: the connections whose callback is registered
    published,  \* Bus: the events published so far, in publish order
    conn,       \* per connection: the position of the GET /event handler
    since,      \* per connection: events published before it subscribed
    delivered,  \* per connection: events the Bus handed to its callback
    pending,    \* per connection: frames whose sink write has not completed
    sink,       \* per connection: frames the sink has written, in order
    sinkState,  \* per connection: "ok" or "failed" (a failed sink stays failed)
    writeFailed,\* per connection: a sink write has failed
    aborted,    \* per connection: the abort signal has fired
    teardowns,  \* per connection: how often unsub() took effect
    clients,    \* per connection: the store of the front end behind it
    pub         \* the run of script/publish.ts

recVars == <<store, arrival>>
busVars == <<subs, published, conn, since, delivered, pending, sink, sinkState,
             writeFailed, aborted, teardowns>>
vars == <<store, arrival, subs, published, conn, since, delivered, pending,
          sink, sinkState, writeFailed, aborted, teardowns, clients, pub>>

(***************************************************************************)
(* Bounds of the model.                                                    *)
(***************************************************************************)
MaxStore == 4   \* messages and parts held by the store, taken together
MaxFeed == 5    \* message.updated events of one permutation run
MaxEvents == 3  \* events published on the Bus

(***************************************************************************)
(* Strings and their comparison.                                           *)
(***************************************************************************)
\* a < b for two strings (JavaScript's < on strings: code unit by code unit,
\* a proper prefix is smaller).
RECURSIVE StrLess(_, _)
StrLess(a, b) ==
    IF a = <<>> THEN b # <<>>
    ELSE IF b = <<>> THEN FALSE
    ELSE IF Head(a) < Head(b) THEN TRUE
    ELSE IF Head(a) > Head(b) THEN FALSE
    ELSE StrLess(Tail(a), Tail(b))

\* The ids "2", "10", "1", "02", "11", "0": neither of fixed width nor numeric.
IdPool == << <<2>>, <<1, 0>>, <<1>>, <<0, 2>>, <<1, 1>>, <<0>> >>

Sessions == {"s1", "s2"}

\* The server's messages: each message id belongs to exactly one session.
Msgs ==
    { [id |-> IdPool[1], sessionID |-> "s1"],
      [id |-> IdPool[2], sessionID |-> "s1"],
      [id |-> IdPool[3], sessionID |-> "s2"],
      [id |-> IdPool[4], sessionID |-> "s1"] }
MsgIds == {m.id : m \in Msgs}
PartIds == {IdPool[1], IdPool[3]}

\* The server's permission requests: each belongs to exactly one session.
Perms ==
    { [id |-> IdPool[1], sessionID |-> "s1"],
      [id |-> IdPool[2], sessionID |-> "s1"] }
Vers == {1, 2}

(***************************************************************************)
(* Events (src/EVENTS.md, "Event Types and Handling").                     *)
(***************************************************************************)
SessionUpdatedEvents ==
    {[type |-> "session.updated", info |-> [id |-> s, ver |-> v]] :
        s \in Sessions, v \in Vers}
SessionDeletedEvents ==
    {[type |-> "session.deleted", info |-> [id |-> s, ver |-> v]] :
        s \in Sessions, v \in {1}}
MessageUpdatedEvents ==
    {[type |-> "message.updated",
      info |-> [id |-> m.id, sessionID |-> m.sessionID, ver |-> v]] :
        m \in Msgs, v \in Vers}
MessageRemovedEvents ==
    {[type |-> "message.removed", messageID |-> m.id,
      sessionID |-> m.sessionID] : m \in Msgs}
PartUpdatedEvents ==
    {[type |-> "message.part.updated",
      part |-> [id |-> p, messageID |-> m.id, sessionID |-> m.sessionID,
                text |-> v]] : p \in PartIds, m \in Msgs, v \in Vers}
PartRemovedEvents ==
    {[type |-> "message.part.removed", messageID |-> m.id, partID |-> p,
      sessionID |-> m.sessionID] : p \in PartIds, m \in Msgs}
PermissionUpdatedEvents ==
    {[type |-> "permission.updated", id |-> p.id, sessionID |-> p.sessionID] :
        p \in Perms}
PermissionRepliedEvents ==
    {[type |-> "permission.replied", permissionID |-> p.id,
      sessionID |-> p.sessionID, response |-> "once"] : p \in Perms}
OtherEvents ==
    {[type |-> "file.edited", file |-> "a.ts"],
     [type |-> "session.idle", sessionID |-> "s1"]}

\* Kinds that are not among the 18 documented ones.
UnknownKindEvents ==
    {[type |-> "session.renamed", info |-> [id |-> "s1", ver |-> 2]],
     [type |-> "message.pinned", messageID |-> IdPool[1], sessionID |-> "s1"]}

Events ==
    SessionUpdatedEvents \cup SessionDeletedEvents \cup MessageUpdatedEvents
    \cup MessageRemovedEvents \cup PartUpdatedEvents \cup PartRemovedEvents
    \cup PermissionUpdatedEvents \cup PermissionRepliedEvents \cup OtherEvents
    \cup UnknownKindEvents

(***************************************************************************)
(* Local store.                                                            *)
(***************************************************************************)
NoSession == [id |-> "none", ver |-> 0]
NoPermission == <<>>

\* The store after construction: no session selected, nothing loaded.
EmptyStore ==
    [session |-> NoSession, messages |-> <<>>, permissions |-> {},
     currentPermission |-> NoPermission]

\* Position of the message with this id in the sequence, 0 when absent.
IndexOfMessage(msgs, id) ==
    IF \E i \in 1..Len(msgs) : msgs[i].info.id = id
    THEN CHOOSE i \in 1..Len(msgs) :
            /\ msgs[i].info.id = id
            /\ \A j \in 1..(i - 1) : msgs[j].info.id # id
    ELSE 0

\* Position of the part with this id in a message's parts, 0 when absent.
IndexOfPart(parts, id) ==
    IF \E i \in 1..Len(parts) : parts[i].id = id
    THEN CHOOSE i \in 1..Len(parts) :
            /\ parts[i].id = id
            /\ \A j \in 1..(i - 1) : parts[j].id # id
    ELSE 0

InsertAt(seq, k, x) == SubSeq(seq, 1, k) \o <<x>> \o SubSeq(seq, k + 1, Len(seq))
RemoveAt(seq, k) == SubSeq(seq, 1, k - 1) \o SubSeq(seq, k + 1, Len(seq))

\* The scan of "Message Ordering": every existing message whose id is smaller
\* than the new id moves the insertion index behind it.
RECURSIVE ScanInsertIndex(_, _, _, _)
ScanInsertIndex(msgs, newMessageID, i, insertIndex) ==
    IF i > Len(msgs) THEN insertIndex
    ELSE ScanInsertIndex(msgs, newMessageID, i + 1,
            IF StrLess(msgs[i].info.id, newMessageID) THEN i ELSE insertIndex)

\* A scan that never looks at the ids: the new message goes to the end.
InsertIndexAtEnd(msgs, newMessageID) == Len(msgs)

\* A handler that puts every new message in front (unshift).
InsertIndexAtFront(msgs, newMessageID) == 0

\* A scan that stops at the first message it looks at.
InsertIndexFirstOnly(msgs, newMessageID) ==
    IF msgs # <<>> /\ StrLess(msgs[1].info.id, newMessageID) THEN 1 ELSE 0

InsertIndex(msgs, newMessageID) == ScanInsertIndex(msgs, newMessageID, 1, 0)

(***************************************************************************)
(* Reconciler: one handler per event type.                                 *)
(***************************************************************************)
\* Events are filtered by sessionID: only the current session is reconciled.
IsCurrentSession(st, sessionID) ==
    st.session # NoSession /\ st.session.id = sessionID

SessionUpdated(st, e) ==
    IF IsCurrentSession(st, e.info.id)
    THEN [st EXCEPT !.session = e.info]
    ELSE st

\* A deletion that forgets the session and keeps its messages and parts.
SessionDeletedKeepingMessages(st, e) ==
    IF IsCurrentSession(st, e.info.id)
    THEN [st EXCEPT !.session = NoSession]
    ELSE st

\* "Clears current session and messages if deleted session matches current
\* session".
SessionDeleted(st, e) ==
    IF IsCurrentSession(st, e.info.id)
    THEN [st EXCEPT !.session = NoSession, !.messages = <<>>]
    ELSE st

\* message.updated handled without looking at the current session.
MessageUpdatedUnfiltered(st, e) ==
    LET k == IndexOfMessage(st.messages, e.info.id)
    IN  IF k > 0
        THEN [st EXCEPT !.messages[k].info = e.info]
        ELSE [st EXCEPT !.messages =
                 InsertAt(st.messages, InsertIndex(st.messages, e.info.id),
                          [info |-> e.info, parts |-> <<>>])]

\* An update that stores a fresh message in place of the one it finds: the
\* parts received so far are lost.
MessageUpdatedReplacingMessage(st, e) ==
    IF ~IsCurrentSession(st, e.info.sessionID) THEN st
    ELSE LET k == IndexOfMessage(st.messages, e.info.id)
         IN  IF k > 0
             THEN [st EXCEPT !.messages[k] = [info |-> e.info, parts |-> <<>>]]
             ELSE [st EXCEPT !.messages =
                      InsertAt(st.messages, InsertIndex(st.messages, e.info.id),
                               [info |-> e.info, parts |-> <<>>])]

MessageUpdated(st, e) ==
    IF ~IsCurrentSession(st, e.info.sessionID) THEN st
    ELSE LET k == IndexOfMessage(st.messages, e.info.id)
         IN  IF k > 0
             THEN [st EXCEPT !.messages[k].info = e.info]
             ELSE [st EXCEPT !.messages =
                      InsertAt(st.messages, InsertIndex(st.messages, e.info.id),
                               [info |-> e.info, parts |-> <<>>])]

\* A removal that splices at the index found without testing it: for an id
\* the list does not hold, splice(-1, 1) removes the last message.
MessageRemovedSpliceUnchecked(st, e) ==
    IF ~IsCurrentSession(st, e.sessionID) THEN st
    ELSE LET k == IndexOfMessage(st.messages, e.messageID)
         IN  [st EXCEPT !.messages =
                 RemoveAt(st.messages, IF k > 0 THEN k ELSE Len(st.messages))]

MessageRemoved(st, e) ==
    IF ~IsCurrentSession(st, e.sessionID) THEN st
    ELSE LET k == IndexOfMessage(st.messages, e.messageID)
         IN  IF k > 0
             THEN [st EXCEPT !.messages = RemoveAt(st.messages, k)]
             ELSE st

\* An upsert that appends without looking for the part id.
UpsertPartAlwaysAppend(parts, part) == Append(parts, part)

\* An upsert that moves an updated part to the end.
UpsertPartMoveToEnd(parts, part) ==
    LET j == IndexOfPart(parts, part.id)
    IN  Append(IF j > 0 THEN RemoveAt(parts, j) ELSE parts, part)

\* "Updates existing part if ID matches, adds new part if not found".
UpsertPart(parts, part) ==
    LET j == IndexOfPart(parts, part.id)
    IN  IF j > 0 THEN [parts EXCEPT ![j] = part] ELSE Append(parts, part)

\* A part of a message the store does not hold is kept under a placeholder
\* for the message.
OrphanPartBuffered(st, part) ==
    [st EXCEPT !.messages =
        InsertAt(st.messages, InsertIndex(st.messages, part.messageID),
                 [info |-> [id |-> part.messageID,
                            sessionID |-> part.sessionID, ver |-> 0],
                  parts |-> <<part>>])]

\* A part of a message the store does not hold is dropped.
OrphanPart(st, part) == st

\* A handler that stores the part in the newest message, whatever message
\* the part names.
PartUpdatedIntoLastMessage(st, e) ==
    IF ~IsCurrentSession(st, e.part.sessionID) THEN st
    ELSE LET k == Len(st.messages)
         IN  IF k = 0 THEN OrphanPart(st, e.part)
             ELSE [st EXCEPT !.messages[k].parts =
                      UpsertPart(st.messages[k].parts, e.part)]

PartUpdated(st, e) ==
    IF ~IsCurrentSession(st, e.part.sessionID) THEN st
    ELSE LET k == IndexOfMessage(st.messages, e.part.messageID)
         IN  IF k = 0 THEN OrphanPart(st, e.part)
             ELSE [st EXCEPT !.messages[k].parts =
                      UpsertPart(st.messages[k].parts, e.part)]

\* A removal that cuts the part sequence at the part found: the parts
\* behind it are lost too.
PartRemovedCuttingTail(st, e) ==
    IF ~IsCurrentSession(st, e.sessionID) THEN st
    ELSE LET k == IndexOfMessage(st.messages, e.messageID)
         IN  IF k = 0 THEN st
             ELSE LET j == IndexOfPart(st.messages[k].parts, e.partID)
                  IN  IF j > 0
                      THEN [st EXCEPT !.messages[k].parts =
                               SubSeq(st.messages[k].parts, 1, j - 1)]
                      ELSE st

PartRemoved(st, e) ==
    IF ~IsCurrentSession(st, e.sessionID) THEN st
    ELSE LET k == IndexOfMessage(st.messages, e.messageID)
         IN  IF k = 0 THEN st
             ELSE LET j == IndexOfPart(st.messages[k].parts, e.partID)
                  IN  IF j > 0
                      THEN [st EXCEPT !.messages[k].parts =
                               RemoveAt(st.messages[k].parts, j)]
                      ELSE st

PermissionUpdated(st, e) ==
    IF ~IsCurrentSession(st, e.sessionID) THEN st
    ELSE [st EXCEPT
            !.permissions = {p \in st.permissions : p.id # e.id}
                            \cup {[id |-> e.id, sessionID |-> e.sessionID]},
            !.currentPermission = e.id]

\* A reply that closes the modal whatever permission it is showing.
PermissionRepliedAlwaysClears(st, e) ==
    IF ~IsCurrentSession(st, e.sessionID) THEN st
    ELSE [st EXCEPT
            !.permissions = {p \in st.permissions : p.id # e.permissionID},
            !.currentPermission = NoPermission]

\* A reply that removes the permission and leaves the marker alone.
PermissionRepliedKeepingMarker(st, e) ==
    IF ~IsCurrentSession(st, e.sessionID) THEN st
    ELSE [st EXCEPT
            !.permissions = {p \in st.permissions : p.id # e.permissionID}]

PermissionReplied(st, e) ==
    IF ~IsCurrentSession(st, e.sessionID) THEN st
    ELSE [st EXCEPT
            !.permissions = {p \in st.permissions : p.id # e.permissionID},
            !.currentPermission =
                IF st.currentPermission = e.permissionID THEN NoPermission
                ELSE st.currentPermission]

\* A kind without a handler is taken for a protocol error: the store is
\* dropped.
UnhandledKindResets(st, e) == EmptyStore

\* A kind without a handler: nothing is done with the frame.
UnhandledKind(st, e) == st

\* The dispatch on the event type; a type without store handling is ignored.
Ingest(st, e) ==
    CASE e.type = "session.updated" -> SessionUpdated(st, e)
      [] e.type = "session.deleted" -> SessionDeleted(st, e)
      [] e.type = "message.updated" -> MessageUpdated(st, e)
      [] e.type = "message.removed" -> MessageRemoved(st, e)
      [] e.type = "message.part.updated" -> PartUpdated(st, e)
      [] e.type = "message.part.removed" -> PartRemoved(st, e)
      [] e.type = "permission.updated" -> PermissionUpdated(st, e)
      [] e.type = "permission.replied" -> PermissionReplied(st, e)
      [] OTHER -> UnhandledKind(st, e)

(***************************************************************************)
(* Frames on the wire and eventSource.onmessage.                           *)
(***************************************************************************)
\* The data of a frame: the JSON text of a value, whole or cut off before
\* its end.
Stringify(v) == [text |-> "complete", of |-> v]
Truncate(v) == [text |-> "truncated", of |-> v]

\* What JSON.parse throws on a text that is not JSON.
SyntaxError == [type |-> "SyntaxError"]

\* A parser that recovers the value from a text that was cut off.
JsonParseLenient(data) == data.of

\* JSON.parse(event.data).
JsonParse(data) ==
    IF data.text = "complete" THEN data.of ELSE SyntaxError

\* The fields a handler reads from an event of its kind.
RequiredFields(type) ==
    CASE type \in {"session.updated", "session.deleted", "message.updated"}
            -> {"info"}
      [] type = "message.removed" -> {"messageID", "sessionID"}
      [] type = "message.part.updated" -> {"part"}
      [] type = "message.part.removed" -> {"messageID", "partID", "sessionID"}
      [] type = "permission.updated" -> {"id", "sessionID"}
      [] type = "permission.replied" -> {"permissionID", "sessionID"}
      [] OTHER -> {}

\* An event that carries its kind and every field its kind requires.
WellFormed(e) ==
    /\ "type" \in DOMAIN e
    /\ RequiredFields(e.type) \subseteq DOMAIN e
    /\ e.type \in {"session.updated", "session.deleted"}
          => "id" \in DOMAIN e.info
    /\ e.type = "message.updated"
          => {"id", "sessionID"} \subseteq DOMAIN e.info
    /\ e.type = "message.part.updated"
          => {"id", "messageID", "sessionID"} \subseteq DOMAIN e.part

\* Parsed values with a required field missing, or without a kind.
MissingFieldEvents ==
    {[type |-> "message.updated", info |-> [sessionID |-> "s1", ver |-> 2]],
     [type |-> "message.updated"],
     [type |-> "message.removed", sessionID |-> "s1"],
     [type |-> "message.part.updated",
      part |-> [id |-> IdPool[1], sessionID |-> "s1", text |-> 2]],
     [type |-> "message.part.removed", messageID |-> IdPool[1],
      sessionID |-> "s1"],
     [type |-> "session.deleted"],
     [type |-> "permission.replied", sessionID |-> "s1"],
     [info |-> [id |-> "s1", ver |-> 2]]}

WellFormedFrames == {Stringify(e) : e \in Events}
MalformedFrames ==
    {Truncate(e) : e \in {u \in MessageUpdatedEvents : u.info.ver = 2}
                          \cup SessionDeletedEvents}
    \cup {Stringify(e) : e \in MissingFieldEvents}
WireFrames == WellFormedFrames \cup MalformedFrames

\* eventSource.onmessage: the data is parsed and the event handled by its
\* type.  JSON.parse throws on a text that is not JSON and the handler is
\* left before anything is handled; a value that lacks a required field is
\* rejected.  The next frame is dispatched to onmessage as usual.
OnMessage(st, data) ==
    LET e == JsonParse(data)
    IN  IF e = SyntaxError THEN st
        ELSE IF ~WellFormed(e) THEN st
        ELSE Ingest(st, e)

\* Read accessors of the store.
listMessages(st, sessionID) ==
    IF IsCurrentSession(st, sessionID) THEN st.messages ELSE <<>>
listParts(st, messageID) ==
    LET k == IndexOfMessage(st.messages, messageID)
    IN  IF k = 0 THEN <<>> ELSE st.messages[k].parts
MessageIdsOf(msgs) == [i \in 1..Len(msgs) |-> msgs[i].info.id]
PartIdsOf(parts) == [i \in 1..Len(parts) |-> parts[i].id]

(***************************************************************************)
(* Reconciler state machine.                                               *)
(***************************************************************************)
Connections == {"c1", "c2"}

\* No front end is attached to a connection.
NoClients == [c \in Connections |-> [store |-> EmptyStore, ingested |-> 0]]

\* The publish script has not been started.
NotStarted ==
    [pc |-> "idle", channel |-> "latest", previousVersion |-> "unset",
     notes |-> <<>>, effects |-> <<>>, status |-> "unset",
     committed |-> FALSE, failedAt |-> "none", exitCode |-> 0]

\* No connection has been accepted, nothing has been published.
BusInit ==
    /\ subs = {}
    /\ published = <<>>
    /\ conn = [c \in Connections |-> "idle"]
    /\ since = [c \in Connections |-> 0]
    /\ delivered = [c \in Connections |-> <<>>]
    /\ pending = [c \in Connections |-> <<>>]
    /\ sink = [c \in Connections |-> <<>>]
    /\ sinkState = [c \in Connections |-> "ok"]
    /\ writeFailed = [c \in Connections |-> FALSE]
    /\ aborted = [c \in Connections |-> FALSE]
    /\ teardowns = [c \in Connections |-> 0]

InitRec ==
    /\ store = EmptyStore
    /\ arrival = <<>>
    /\ BusInit
    /\ clients = NoClients
    /\ pub = NotStarted

RECURSIVE SumParts(_)
SumParts(msgs) ==
    IF msgs = <<>> THEN 0 ELSE Len(Head(msgs).parts) + SumParts(Tail(msgs))

\* The size of the store the model explores.
WithinBounds(st) ==
    Len(st.messages) + SumParts(st.messages) <= MaxStore

\* The viewer opens a session: it becomes the current one, its message list
\* starts empty.
SelectSession(s) ==
    /\ store' = [store EXCEPT !.session = [id |-> s, ver |-> 1],
                              !.messages = <<>>]
    /\ UNCHANGED <<arrival, busVars, clients, pub>>

\* eventSource.onmessage: one frame is parsed and handled.
IngestFrame(data) ==
    /\ WithinBounds(OnMessage(store, data))
    /\ store' = OnMessage(store, data)
    /\ UNCHANGED <<arrival, busVars, clients, pub>>

NextRec ==
    \/ \E s \in Sessions : SelectSession(s)
    \/ \E data \in WireFrames : IngestFrame(data)

SpecRec == InitRec /\ [][NextRec]_vars


(***************************************************************************)
(* Bus and GET /event handler (src/EVENTS.md lines 14-39).                 *)
(*                                                                         *)
(* JavaScript runs one task at a time: accepting a connection (the frame   *)
(* server.connected is written, the callback is registered, the abort      *)
(* handler is installed), a publish (every registered callback is called   *)
(* and issues its write) and the abort handler are each one step.  A write *)
(* issued on the stream completes later, in the order of issue; a sink     *)
(* that has failed stays failed.                                           *)
(***************************************************************************)
BusEvents ==
    {[type |-> "message.updated", properties |-> 1],
     [type |-> "message.part.updated", properties |-> 2]}

ConnectedFrame == [type |-> "server.connected", properties |-> 0]

\* JSON.stringify(event) as the data of one frame.
Frame(ev) == [type |-> ev.type, properties |-> ev.properties]
Frames(evs) == [i \in 1..Len(evs) |-> Frame(evs[i])]

\* No frame is written when the connection is accepted.
NoInitialWrites == <<>>

\* A handler that replays the events published so far to a new connection.
InitialWritesWithHistory == <<ConnectedFrame>> \o Frames(published)

\* stream.writeSSE of the connection event, issued first and not awaited.
InitialWrites == <<ConnectedFrame>>

\* A callback whose write overtakes the writes still pending.
CallbackWriteFirst(queue, ev) == <<Frame(ev)>> \o queue

\* A callback that skips the event while an earlier write is pending.
CallbackSkipWhenBusy(queue, ev) ==
    IF queue = <<>> THEN <<Frame(ev)>> ELSE queue

\* A callback whose write is issued ahead of the newest pending write.
CallbackAheadOfNewest(queue, ev) ==
    IF queue = <<>> THEN <<Frame(ev)>>
    ELSE SubSeq(queue, 1, Len(queue) - 1)
             \o <<Frame(ev), queue[Len(queue)]>>

\* The subscribeAll callback: one writeSSE per event, issued on delivery.
Callback(queue, ev) == Append(queue, Frame(ev))

\* A write-failure path that tears the subscription down on its own.
TeardownsAfterWriteFailureToo(n) == n + 1

\* The callback has no failure path: a failed write tears nothing down.
TeardownsAfterWriteFailure(n) == n

\* stream.onAbort: unsub() is called once.
TeardownsAfterAbort(n) == n + 1

\* The subscribers a publish reaches.
Receivers == subs

\* A publish that awaits the promise of every callback it called.
AwaitedByPublishAll == Receivers

\* The subscribers whose write a publish waits for before it returns: none,
\* the callbacks' promises are not awaited.
AwaitedByPublish == {}

\* An unsubscribe that splices the registry at the index found without
\* testing it: for a callback that is not registered, splice(-1, 1) removes
\* another subscriber.
UnsubSpliceUnchecked(registry, c) ==
    IF c \in registry THEN registry \ {c}
    ELSE IF registry = {} THEN registry
    ELSE registry \ {CHOOSE d \in registry : TRUE}

\* unsub(): the callback leaves the registry.
Unsub(registry, c) == registry \ {c}

\* The registry after unsub() of a connection's callback.
Unsubscribed(c) == Unsub(subs, c)

\* The number of frames the spec allows a subscriber to have waiting before
\* it counts as unable to keep up.
BufferSize == 2

\* GET /event: the handler runs up to its await.
Accept(c) ==
    /\ conn[c] = "idle"
    /\ conn' = [conn EXCEPT ![c] = "streaming"]
    /\ pending' = [pending EXCEPT ![c] = InitialWrites]
    /\ subs' = subs \cup {c}
    /\ since' = [since EXCEPT ![c] = Len(published)]
    /\ UNCHANGED <<published, delivered, sink, sinkState, writeFailed,
                   aborted, teardowns, recVars, clients, pub>>

\* Bus.publish: every registered callback is called with the event.
Publish(ev) ==
    /\ Len(published) < MaxEvents
    /\ \A c \in AwaitedByPublish : pending[c] = <<>>
    /\ published' = Append(published, ev)
    /\ delivered' = [c \in Connections |->
                        IF c \in Receivers THEN Append(delivered[c], ev)
                        ELSE delivered[c]]
    /\ pending' = [c \in Connections |->
                      IF c \in Receivers THEN Callback(pending[c], ev)
                      ELSE pending[c]]
    /\ UNCHANGED <<subs, conn, since, sink, sinkState, writeFailed, aborted,
                   teardowns, recVars, clients, pub>>

\* The oldest pending write reaches the sink.
CompleteWrite(c) ==
    /\ pending[c] # <<>>
    /\ sinkState[c] = "ok"
    /\ sink' = [sink EXCEPT ![c] = Append(sink[c], Head(pending[c]))]
    /\ pending' = [pending EXCEPT ![c] = Tail(pending[c])]
    /\ UNCHANGED <<subs, published, conn, since, delivered, sinkState,
                   writeFailed, aborted, teardowns, recVars, clients, pub>>

\* The oldest pending write fails: the sink is broken from here on.  The
\* callback's await rejects; nothing else happens.
FailWrite(c) ==
    /\ pending[c] # <<>>
    /\ sinkState' = [sinkState EXCEPT ![c] = "failed"]
    /\ writeFailed' = [writeFailed EXCEPT ![c] = TRUE]
    /\ pending' = [pending EXCEPT ![c] = Tail(pending[c])]
    /\ teardowns' = [teardowns EXCEPT
                        ![c] = IF c \in subs
                               THEN TeardownsAfterWriteFailure(teardowns[c])
                               ELSE teardowns[c]]
    /\ UNCHANGED <<subs, published, conn, since, delivered, sink, aborted,
                   recVars, clients, pub>>

\* The abort signal of the request: unsub(), resolve(), the stream closes.
Abort(c) ==
    /\ conn[c] = "streaming"
    /\ ~aborted[c]
    /\ aborted' = [aborted EXCEPT ![c] = TRUE]
    /\ subs' = Unsubscribed(c)
    /\ teardowns' = [teardowns EXCEPT ![c] = TeardownsAfterAbort(teardowns[c])]
    /\ conn' = [conn EXCEPT ![c] = "closed"]
    /\ sinkState' = [sinkState EXCEPT ![c] = "failed"]
    /\ UNCHANGED <<published, since, delivered, pending, sink, writeFailed,
                   recVars, clients, pub>>

InitBus ==
    /\ store = EmptyStore
    /\ arrival = <<>>
    /\ BusInit
    /\ clients = NoClients
    /\ pub = NotStarted

NextBus ==
    \/ \E c \in Connections : Accept(c)
    \/ \E ev \in BusEvents : Publish(ev)
    \/ \E c \in Connections : CompleteWrite(c)
    \/ \E c \in Connections : FailWrite(c)
    \/ \E c \in Connections : Abort(c)

SpecBus == InitBus /\ [][NextBus]_vars

\* The transport is fair: a write that stays pending on a working sink
\* completes.
SpecBusFair ==
    /\ InitBus
    /\ [][NextBus]_vars
    /\ \A c \in Connections : WF_vars(CompleteWrite(c))

(***************************************************************************)
(* Permutation runs: message.updated events with pairwise distinct ids and *)
(* one shared sessionID are fed to a Reconciler that holds no message.     *)
(***************************************************************************)
FeedIds == {IdPool[i] : i \in 1..MaxFeed}
FeedEvents ==
    {[type |-> "message.updated",
      info |-> [id |-> i, sessionID |-> s, ver |-> 1]] :
        i \in FeedIds, s \in Sessions}

InitFeed ==
    /\ store \in {EmptyStore} \cup
           {[EmptyStore EXCEPT !.session = [id |-> s, ver |-> 1]] : s \in Sessions}
    /\ arrival = <<>>
    /\ BusInit
    /\ clients = NoClients
    /\ pub = NotStarted

Feed(e) ==
    /\ \A i \in 1..Len(arrival) :
          /\ arrival[i].info.id # e.info.id
          /\ arrival[i].info.sessionID = e.info.sessionID
    /\ store' = Ingest(store, e)
    /\ arrival' = Append(arrival, e)
    /\ UNCHANGED <<busVars, clients, pub>>

NextFeed == \E e \in FeedEvents : Feed(e)

SpecFeed == InitFeed /\ [][NextFeed]_vars

IsAscending(ids) ==
    \A i \in 1..(Len(ids) - 1) : StrLess(ids[i], ids[i + 1])

\* The ascending enumeration of a set of ids: the i-th element is the one
\* with i - 1 smaller elements.
SortedSeq(S) ==
    [i \in 1..Cardinality(S) |->
        CHOOSE x \in S : Cardinality({y \in S : StrLess(y, x)}) = i - 1]

FedIds == {arrival[i].info.id : i \in 1..Len(arrival)}

\* C1: after any arrival order of message.updated events with distinct ids and
\* one shared session, that session's message sequence is ascending by id and
\* is a function of the set of events alone (the ascending enumeration of the
\* fed ids when the shared session is the one being reconciled, empty
\* otherwise), hence the same for every permutation.
C1_OrderInsensitiveConvergence ==
    arrival # <<>> =>
        LET shared == arrival[1].info.sessionID
            ids == MessageIdsOf(listMessages(store, shared))
        IN  /\ IsAscending(ids)
            /\ ids = IF IsCurrentSession(store, shared)
                     THEN SortedSeq(FedIds) ELSE <<>>

\* All events of a run were fed out of order and landed in ascending order.
C1_Witness ==
    /\ Len(arrival) = MaxFeed
    /\ Len(store.messages) = MaxFeed
    /\ \A i \in 1..(Len(arrival) - 1) :
          StrLess(arrival[i + 1].info.id, arrival[i].info.id)

(***************************************************************************)
(* Two front ends on one Bus: each connection feeds the frames its sink    *)
(* has written, in order, to the Reconciler of the front end behind it.    *)
(***************************************************************************)
MaxConvEvents == 2  \* events published in a run with two front ends

\* Bus events as the server publishes them: { type, properties }.
ConvEvents ==
    {[type |-> "message.updated",
      properties |-> [info |-> [id |-> IdPool[1], sessionID |-> "s1",
                                ver |-> 1]]],
     [type |-> "message.part.updated",
      properties |-> [part |-> [id |-> IdPool[1], messageID |-> IdPool[1],
                                sessionID |-> "s1", text |-> 1]]]}

\* The event a handler works on: the type and the fields of properties.
EventOf(frame) ==
    IF frame.type = "server.connected" THEN [type |-> frame.type]
    ELSE [type |-> frame.type] @@ frame.properties

\* A front end that has a session open and has ingested nothing.
FreshClient(s) ==
    [store |-> [EmptyStore EXCEPT !.session = [id |-> s, ver |-> 1]],
     ingested |-> 0]

\* Bus.publish in a run with two front ends.
PublishConv(ev) ==
    /\ Len(published) < MaxConvEvents
    /\ Publish(ev)

\* The EventSource of a front end hands the next frame of the stream to
\* onmessage.
ClientIngest(c) ==
    /\ clients[c].ingested < Len(sink[c])
    /\ clients' = [clients EXCEPT ![c] =
          [store |-> OnMessage(clients[c].store,
                               Stringify(EventOf(sink[c][clients[c].ingested + 1]))),
           ingested |-> clients[c].ingested + 1]]
    /\ UNCHANGED <<recVars, busVars, pub>>

InitConv ==
    /\ store = EmptyStore
    /\ arrival = <<>>
    /\ BusInit
    /\ clients \in [Connections -> {FreshClient(s) : s \in Sessions}]
    /\ pub = NotStarted

NextConv ==
    \/ \E c \in Connections : Accept(c)
    \/ \E ev \in ConvEvents : PublishConv(ev)
    \/ \E c \in Connections : CompleteWrite(c)
    \/ \E c \in Connections : FailWrite(c)
    \/ \E c \in Connections : Abort(c)
    \/ \E c \in Connections : ClientIngest(c)

SpecConv == InitConv /\ [][NextConv]_vars

(***************************************************************************)
(* script/publish.ts: one run of the release script.                       *)
(*                                                                         *)
(* pub.pc names the step run() is about to execute.  A shell command ($)   *)
(* or a file operation either completes or throws; pub.effects lists the   *)
(* steps that completed, pub.failedAt the step whose exception left run(). *)
(***************************************************************************)
Channels == {"latest", "preview", "beta"}

\* Script.preview.
Preview(channel) == channel = "preview"

\* The steps of run() in program order; the first is the evaluation of
\* Script.version, which throws when OPENCODE_BUMP is not set.
StepOrder ==
    <<"version", "updateVersions", "install", "build", "status", "add", "commit", "tag",
      "revparse", "push", "notesfile", "release", "cleanup">>
Rank(step) == CHOOSE i \in 1..Len(StepOrder) : StepOrder[i] = step

\* The steps that make up the release automation behind the preview check.
ReleaseAutomation ==
    {"status", "add", "commit", "tag", "revparse", "push", "notesfile",
     "release", "cleanup"}

\* A run() that guards the push with try/catch and carries on.
OnStepFailureIgnoringPush(step) ==
    IF step \in {"revparse", "push"} THEN "notesfile" ELSE "rejected"

\* An exception of a step is caught nowhere in run(): the promise run()
\* returned is rejected.
OnStepFailure(step) == "rejected"

\* A run() without the preview check.
AfterBuildAlwaysRelease(channel) == "status"

\* After the build: a preview run returns, any other run goes on to
\* commitAndTag.
AfterBuild(channel) == IF Preview(channel) THEN "done" ELSE "status"

\* A pushChanges without the early return.
AfterCommitAndTagAlwaysPush(versionCommitted) == "revparse"

\* pushChanges(committed): nothing is pushed unless commitAndTag returned
\* true; createGitHubRelease follows in both cases.
AfterCommitAndTag(versionCommitted) ==
    IF versionCommitted THEN "revparse" ELSE "notesfile"

Completed(step, next) ==
    pub' = [pub EXCEPT !.effects = Append(@, step), !.pc = next]
Thrown(step) ==
    pub' = [pub EXCEPT !.failedAt = step, !.pc = OnStepFailure(step)]
OnlyPub == UNCHANGED <<recVars, busVars, clients>>

\* run() up to its first await: Script.version is evaluated for the log
\* line; a preview run resolves no previous version and collects no notes.
Start ==
    /\ pub.pc = "start"
    /\ \/ pub' = IF Preview(pub.channel)
                 THEN [pub EXCEPT !.previousVersion = "null",
                                  !.pc = "updateVersions"]
                 ELSE [pub EXCEPT !.pc = "resolve"]
       \/ Thrown("version")
    /\ OnlyPub

\* resolvePreviousVersion: the latest release, else the latest local tag,
\* else null; both lookups catch their own failure.
ResolvePreviousVersion ==
    /\ pub.pc = "resolve"
    /\ \E v \in {"null", "0.9.0"} :
          pub' = [pub EXCEPT !.previousVersion = v, !.pc = "notes"]
    /\ OnlyPub

\* collectReleaseNotes: "- Initial release" without a previous version,
\* else the feat/fix/break commits since it; a failing git log is caught and
\* leaves the notes empty.
CollectReleaseNotes ==
    /\ pub.pc = "notes"
    /\ \E n \in IF pub.previousVersion = "null"
                 THEN {<<"- Initial release">>}
                 ELSE {<<>>, <<"- fix">>} :
          pub' = [pub EXCEPT !.notes = n, !.pc = "updateVersions"]
    /\ OnlyPub

UpdatePackageVersions ==
    /\ pub.pc = "updateVersions"
    /\ Completed("updateVersions", "install") \/ Thrown("updateVersions")
    /\ OnlyPub

EnsureDependencies ==
    /\ pub.pc = "install"
    /\ Completed("install", "build") \/ Thrown("install")
    /\ OnlyPub

BuildReleaseArtifact ==
    /\ pub.pc = "build"
    /\ Completed("build", AfterBuild(pub.channel)) \/ Thrown("build")
    /\ OnlyPub

\* commitAndTag: git status --porcelain; a clean tree skips commit and tag.
GitStatus ==
    /\ pub.pc = "status"
    /\ \/ pub' = [pub EXCEPT !.effects = Append(@, "status"),
                             !.status = "dirty",
                             !.pc = "add"]
       \/ pub' = [pub EXCEPT !.effects = Append(@, "status"),
                             !.status = "clean",
                             !.committed = FALSE,
                             !.pc = AfterCommitAndTag(FALSE)]
       \/ Thrown("status")
    /\ OnlyPub

GitAdd ==
    /\ pub.pc = "add"
    /\ Completed("add", "commit") \/ Thrown("add")
    /\ OnlyPub

GitCommit ==
    /\ pub.pc = "commit"
    /\ Completed("commit", "tag") \/ Thrown("commit")
    /\ OnlyPub

\* git tag; commitAndTag returns true.
GitTag ==
    /\ pub.pc = "tag"
    /\ \/ pub' = [pub EXCEPT !.effects = Append(@, "tag"),
                             !.committed = TRUE,
                             !.pc = AfterCommitAndTag(TRUE)]
       \/ Thrown("tag")
    /\ OnlyPub

\* pushChanges: git rev-parse --abbrev-ref HEAD.
RevParseBranch ==
    /\ pub.pc = "revparse"
    /\ Completed("revparse", "push") \/ Thrown("revparse")
    /\ OnlyPub

\* pushChanges: git push origin <branch> --tags.
GitPush ==
    /\ pub.pc = "push"
    /\ Completed("push", "notesfile") \/ Thrown("push")
    /\ OnlyPub

\* createGitHubRelease: mkdir -p release and the notes file.
WriteNotesFile ==
    /\ pub.pc = "notesfile"
    /\ Completed("notesfile", "release") \/ Thrown("notesfile")
    /\ OnlyPub

\* createGitHubRelease: gh release create.
GhReleaseCreate ==
    /\ pub.pc = "release"
    /\ Completed("release", "cleanup") \/ Thrown("release")
    /\ OnlyPub

\* createGitHubRelease: rm -f of the notes file; a failure is ignored.
RemoveNotesFile ==
    /\ pub.pc = "cleanup"
    /\ Completed("cleanup", "done") \/ pub' = [pub EXCEPT !.pc = "done"]
    /\ OnlyPub

\* run() resolved: the process ends with the exit code it has.
OnResolved ==
    /\ pub.pc = "done"
    /\ pub' = [pub EXCEPT !.pc = "exit"]
    /\ OnlyPub

\* run().catch: the error is logged and process.exitCode is set.
OnRejected ==
    /\ pub.pc = "rejected"
    /\ pub' = [pub EXCEPT !.exitCode = 1, !.pc = "exit"]
    /\ OnlyPub

InitPub ==
    /\ store = EmptyStore
    /\ arrival = <<>>
    /\ BusInit
    /\ clients = NoClients
    /\ pub \in {[NotStarted EXCEPT !.pc = "start", !.channel = ch] :
                   ch \in Channels}

NextPub ==
    \/ Start
    \/ ResolvePreviousVersion
    \/ CollectReleaseNotes
    \/ UpdatePackageVersions
    \/ EnsureDependencies
    \/ BuildReleaseArtifact
    \/ GitStatus
    \/ GitAdd
    \/ GitCommit
    \/ GitTag
    \/ RevParseBranch
    \/ GitPush
    \/ WriteNotesFile
    \/ GhReleaseCreate
    \/ RemoveNotesFile
    \/ OnResolved
    \/ OnRejected

SpecPub == InitPub /\ [][NextPub]_vars

\* The ids a new message can carry.
AllIds == {IdPool[i] : i \in 1..Len(IdPool)}

\* The index a sorted insert chooses: the number of ids smaller than the
\* new one.
SortedInsertIndex(ids, newMessageID) ==
    Cardinality({i \in 1..Len(ids) : StrLess(ids[i], newMessageID)})

\* C26: for every ascending message sequence and every new id it does not
\* hold, the scan yields the index a sorted insert chooses (0 for an id
\* smaller than all, the length for an id larger than all), and the
\* sequence with the message inserted there is ascending.
C26_InsertionIndex ==
    LET ids == MessageIdsOf(store.messages)
    IN  IsAscending(ids) =>
            \A new \in AllIds :
                (\A i \in 1..Len(ids) : ids[i] # new) =>
                    /\ InsertIndex(store.messages, new)
                          = SortedInsertIndex(ids, new)
                    /\ IsAscending(MessageIdsOf(
                          InsertAt(store.messages,
                                   InsertIndex(store.messages, new),
                                   [info |-> [id |-> new, sessionID |-> "s1",
                                              ver |-> 1],
                                    parts |-> <<>>])))

\* An ascending sequence of three messages, and new ids that are smaller
\* than all of them, larger than all of them, and in between.
C26_Witness ==
    LET ids == MessageIdsOf(store.messages)
    IN  /\ Len(ids) = 3
        /\ \E new \in AllIds : \A i \in 1..3 : StrLess(new, ids[i])
        /\ \E new \in AllIds : \A i \in 1..3 : StrLess(ids[i], new)
        /\ \E new \in AllIds : StrLess(ids[1], new) /\ StrLess(new, ids[2])


EventSessionID(e) ==
    CASE e.type = "message.updated" -> e.info.sessionID
      [] e.type = "message.part.updated" -> e.part.sessionID
      [] OTHER -> e.sessionID

ScopedEvents ==
    MessageUpdatedEvents \cup MessageRemovedEvents \cup PartUpdatedEvents
    \cup PartRemovedEvents \cup PermissionUpdatedEvents
    \cup PermissionRepliedEvents

\* What an upsert leaves in the store when it is written.
Written(st, e) ==
    CASE e.type = "message.updated" ->
            LET k == IndexOfMessage(st.messages, e.info.id)
            IN  k > 0 /\ st.messages[k].info = e.info
      [] e.type = "permission.updated" ->
            /\ [id |-> e.id, sessionID |-> e.sessionID] \in st.permissions
            /\ st.currentPermission = e.id
      [] OTHER -> TRUE

\* C3 as stated: a message.updated or permission.updated event is written
\* into the store whatever session is current, also when a session other than
\* the event's own is the current one.
C3_WrittenWhateverIsCurrent ==
    \A e \in MessageUpdatedEvents \cup PermissionUpdatedEvents :
        store.session # NoSession => Written(Ingest(store, e), e)

\* C3 amended: an event of a session-scoped kind whose sessionID is not the
\* current session leaves the store unchanged; a message.updated or
\* permission.updated event of the current session is written into the store.
C3_ScopedToCurrentSession ==
    \A e \in ScopedEvents :
        IF IsCurrentSession(store, EventSessionID(e))
        THEN Written(Ingest(store, e), e)
        ELSE Ingest(store, e) = store

\* A session is current, holds a message, and there are events of the other
\* session of every scoped kind.
C3_Witness ==
    /\ store.session # NoSession
    /\ store.messages # <<>>
    /\ store.permissions # {}
    /\ \E e \in MessageUpdatedEvents : ~IsCurrentSession(store, e.info.sessionID)
    /\ \E e \in PermissionUpdatedEvents : ~IsCurrentSession(store, e.sessionID)

\* C9: message.part.updated for a message held by the store replaces the part
\* with that id at its position, or appends the part at the end when the
\* message has no part with that id; the other parts, the message's envelope
\* and every other message stay as they were.
C9_AppendOrderParts ==
    \A e \in PartUpdatedEvents :
        LET k == IndexOfMessage(store.messages, e.part.messageID)
        IN  k > 0 =>
            LET after == Ingest(store, e).messages
                old == store.messages[k].parts
                j == IndexOfPart(old, e.part.id)
            IN  /\ Len(after) = Len(store.messages)
                /\ \A i \in 1..Len(after) : i # k => after[i] = store.messages[i]
                /\ after[k].info = store.messages[k].info
                /\ IF j > 0
                   THEN /\ Len(after[k].parts) = Len(old)
                        /\ after[k].parts[j] = e.part
                        /\ \A i \in 1..Len(old) :
                              i # j => after[k].parts[i] = old[i]
                   ELSE after[k].parts = Append(old, e.part)

\* A message holds two parts in arrival order against the id order, beside
\* another message; its first part is about to be updated with new content
\* and the other message is about to get its first part.
C9_Witness ==
    /\ Len(store.messages) >= 2
    /\ \E k \in 1..Len(store.messages) :
          LET parts == store.messages[k].parts
          IN  /\ Len(parts) = 2
              /\ StrLess(parts[2].id, parts[1].id)
              /\ \E e \in PartUpdatedEvents :
                    /\ e.part.messageID = store.messages[k].info.id
                    /\ e.part.id = parts[1].id
                    /\ e.part.text # parts[1].text
    /\ \E k \in 1..Len(store.messages) : store.messages[k].parts = <<>>

\* C10: message.part.updated naming a message the store does not hold leaves
\* the store unchanged; when message.updated for that id is ingested next,
\* the store lists no part for the message, and the message it inserts has an
\* empty part sequence.
C10_OrphanPartDrop ==
    \A e \in PartUpdatedEvents :
        IndexOfMessage(store.messages, e.part.messageID) = 0 =>
            /\ Ingest(store, e) = store
            /\ \A u \in MessageUpdatedEvents :
                  u.info.id = e.part.messageID =>
                      LET st2 == Ingest(Ingest(store, e), u)
                          k == IndexOfMessage(st2.messages, u.info.id)
                      IN  /\ listParts(st2, u.info.id) = <<>>
                          /\ IsCurrentSession(store, u.info.sessionID) => k > 0
                          /\ k > 0 => st2.messages[k].parts = <<>>

\* The current session holds a message with a part, and a message of the
\* current session is still missing: a part for it is an orphan.
C10_Witness ==
    /\ \E k \in 1..Len(store.messages) : store.messages[k].parts # <<>>
    /\ \E e \in PartUpdatedEvents :
          /\ IsCurrentSession(store, e.part.sessionID)
          /\ IndexOfMessage(store.messages, e.part.messageID) = 0


\* C11: message.removed for a message id that the named session's message
\* sequence does not hold leaves the whole store as it was; for an id it
\* holds, that message (with its parts) leaves the sequence, the messages
\* before and after it keep their order, envelope and parts, and the session,
\* the permissions and the current permission marker stay as they were.
C11_DeletionNoOp ==
    \A e \in MessageRemovedEvents :
        LET before == listMessages(store, e.sessionID)
            k == IndexOfMessage(before, e.messageID)
            st2 == Ingest(store, e)
            after == listMessages(st2, e.sessionID)
        IN  IF k = 0 THEN st2 = store
            ELSE /\ Len(after) = Len(before) - 1
                 /\ \A i \in 1..Len(after) :
                       after[i] = IF i < k THEN before[i] ELSE before[i + 1]
                 /\ IndexOfMessage(after, e.messageID) = 0
                 /\ st2.session = store.session
                 /\ st2.permissions = store.permissions
                 /\ st2.currentPermission = store.currentPermission

\* The current session holds two messages, the last one with a part; there
\* is a removal for the first of them and a removal, in the same session,
\* for a message the store does not hold.
C11_Witness ==
    /\ Len(store.messages) >= 2
    /\ store.messages[Len(store.messages)].parts # <<>>
    /\ \E e \in MessageRemovedEvents :
          /\ IsCurrentSession(store, e.sessionID)
          /\ IndexOfMessage(store.messages, e.messageID) = 1
    /\ \E e \in MessageRemovedEvents :
          /\ IsCurrentSession(store, e.sessionID)
          /\ IndexOfMessage(store.messages, e.messageID) = 0

\* C12 as stated: session.deleted removes the session and nothing else; the
\* messages and parts the store holds stay as they were.
C12_NoCascade ==
    \A e \in SessionDeletedEvents :
        Ingest(store, e).messages = store.messages

\* C12 amended: session.deleted for the current session clears the current
\* session together with its messages and their parts; session.deleted for
\* any other session leaves the store unchanged.
C12_DeleteClearsCurrentSession ==
    \A e \in SessionDeletedEvents :
        LET st2 == Ingest(store, e)
        IN  IF IsCurrentSession(store, e.info.id)
            THEN /\ st2.session = NoSession
                 /\ st2.messages = <<>>
                 /\ \A m \in MsgIds : listParts(st2, m) = <<>>
                 /\ \A s \in Sessions : listMessages(st2, s) = <<>>
            ELSE st2 = store

\* The current session holds two messages, one of them with a part; it can
\* be deleted, and so can the other session.
C12_Witness ==
    /\ Len(store.messages) >= 2
    /\ \E k \in 1..Len(store.messages) : store.messages[k].parts # <<>>
    /\ \E e \in SessionDeletedEvents : IsCurrentSession(store, e.info.id)
    /\ \E e \in SessionDeletedEvents : ~IsCurrentSession(store, e.info.id)

\* The frames that follow a rejected or ignored frame in the claims below.
FollowUpFrames ==
    {Stringify(e) : e \in {u \in MessageUpdatedEvents : u.info.ver = 2}}

\* C13: a malformed frame (a payload that does not parse, or a parsed value
\* that lacks its kind or a field its kind requires) leaves the store exactly
\* as it was, and a well-formed frame ingested after it has the effect it
\* would have had without the malformed frame.
C13_MalformedFrameRejection ==
    \A f \in MalformedFrames :
        LET st2 == OnMessage(store, f)
        IN  /\ st2 = store
            /\ \A g \in FollowUpFrames :
                  OnMessage(st2, g) = OnMessage(store, g)

\* Session s1 is current and holds a message; among the malformed frames are
\* the cut-off text of an event that would change the store, and values with
\* a missing field that name the current session.
C13_Witness ==
    /\ IsCurrentSession(store, "s1")
    /\ store.messages # <<>>
    /\ \E e \in MessageUpdatedEvents :
          /\ Truncate(e) \in MalformedFrames
          /\ Ingest(store, e) # store
    /\ \E e \in MissingFieldEvents :
          /\ Stringify(e) \in MalformedFrames
          /\ "sessionID" \in DOMAIN e
          /\ IsCurrentSession(store, e.sessionID)

\* C14: a frame of a kind without a handler, documented or unknown, leaves
\* the store unchanged, and a frame ingested after it has its ordinary
\* effect.
C14_ForwardCompatibility ==
    \A e \in UnknownKindEvents \cup OtherEvents :
        LET st2 == OnMessage(store, Stringify(e))
        IN  /\ st2 = store
            /\ \A g \in FollowUpFrames :
                  OnMessage(st2, g) = OnMessage(store, g)

\* The store holds the session and the message that the frames of unknown
\* kinds name, and a pending permission.
C14_Witness ==
    /\ \E e \in UnknownKindEvents :
          "info" \in DOMAIN e /\ IsCurrentSession(store, e.info.id)
    /\ \E e \in UnknownKindEvents :
          /\ "messageID" \in DOMAIN e
          /\ IndexOfMessage(store.messages, e.messageID) > 0
    /\ store.permissions # {}

\* C20: message.updated for a message id its session's sequence holds
\* replaces the envelope of that message and nothing else: the sequence keeps
\* its length and order, the message keeps its position and its parts, every
\* other message keeps envelope and parts, and the session, the permissions
\* and the current permission marker stay as they were.
C20_EnvelopeUpdateFrame ==
    \A e \in MessageUpdatedEvents :
        LET before == listMessages(store, e.info.sessionID)
            k == IndexOfMessage(before, e.info.id)
            st2 == Ingest(store, e)
            after == listMessages(st2, e.info.sessionID)
        IN  k > 0 =>
                /\ Len(after) = Len(before)
                /\ after[k].info = e.info
                /\ after[k].parts = before[k].parts
                /\ \A i \in 1..Len(before) : i # k => after[i] = before[i]
                /\ st2.session = store.session
                /\ st2.permissions = store.permissions
                /\ st2.currentPermission = store.currentPermission

\* Each of two messages holds a part, and there is an update for the first
\* message with a new envelope.
C20_Witness ==
    /\ Len(store.messages) >= 2
    /\ store.messages[1].parts # <<>>
    /\ store.messages[2].parts # <<>>
    /\ \E e \in MessageUpdatedEvents :
          /\ IsCurrentSession(store, e.info.sessionID)
          /\ e.info.id = store.messages[1].info.id
          /\ e.info # store.messages[1].info

\* C21: in every reachable store the message sequence listMessages returns
\* for any session is strictly ascending by id; no id occurs twice in it.
C21_SortedMessages ==
    \A s \in Sessions :
        LET ids == MessageIdsOf(listMessages(store, s))
        IN  /\ IsAscending(ids)
            /\ \A i, j \in 1..Len(ids) : ids[i] = ids[j] => i = j

\* Three messages of the current session, one of them with a part.
C21_Witness ==
    /\ Len(store.messages) >= 3
    /\ \E k \in 1..Len(store.messages) : store.messages[k].parts # <<>>

\* The ids of the permissions in a set.
PermissionIds(perms) == {p.id : p \in perms}

C27_PartRemoval ==
    \A e \in PartRemovedEvents :
        LET st2 == Ingest(store, e)
            k == IndexOfMessage(listMessages(store, e.sessionID), e.messageID)
            j == IF k = 0 THEN 0
                 ELSE IndexOfPart(store.messages[k].parts, e.partID)
        IN  IF j = 0 THEN st2 = store
            ELSE LET old == store.messages[k].parts
                     new == st2.messages[k].parts
                 IN  /\ Len(st2.messages) = Len(store.messages)
                     /\ \A i \in 1..Len(store.messages) :
                           i # k => st2.messages[i] = store.messages[i]
                     /\ st2.messages[k].info = store.messages[k].info
                     /\ Len(new) = Len(old) - 1
                     /\ \A i \in 1..Len(new) :
                           new[i] = IF i < j THEN old[i] ELSE old[i + 1]
                     /\ st2.session = store.session
                     /\ st2.permissions = store.permissions
                     /\ st2.currentPermission = store.currentPermission

\* A message holds two parts beside another message; there is a removal for
\* its first part and a removal for a part the other message does not hold.
C27_Witness ==
    /\ Len(store.messages) >= 2
    /\ \E k \in 1..Len(store.messages) :
          /\ Len(store.messages[k].parts) = 2
          /\ \E e \in PartRemovedEvents :
                /\ IsCurrentSession(store, e.sessionID)
                /\ e.messageID = store.messages[k].info.id
                /\ e.partID = store.messages[k].parts[1].id
    /\ \E e \in PartRemovedEvents :
          /\ IsCurrentSession(store, e.sessionID)
          /\ IndexOfMessage(store.messages, e.messageID) > 0
          /\ listParts(store, e.messageID) = <<>>

\* C28: in every reachable store no part id occurs twice in the part
\* sequence of a message, and every part is held by the message its own
\* messageID names.
C28_PartKeyUniqueness ==
    \A k \in 1..Len(store.messages) :
        LET parts == store.messages[k].parts
        IN  /\ \A i, j \in 1..Len(parts) : parts[i].id = parts[j].id => i = j
            /\ \A i \in 1..Len(parts) :
                  parts[i].messageID = store.messages[k].info.id

\* Two messages hold a part with the same part id each, and one of them a
\* second part.
C28_Witness ==
    /\ Len(store.messages) >= 2
    /\ store.messages[1].parts # <<>>
    /\ store.messages[2].parts # <<>>
    /\ store.messages[1].parts[1].id = store.messages[2].parts[1].id
    /\ store.messages[1].parts[1].text = 2

\* C29: in every reachable store the current-permission marker is empty or
\* the id of a permission in the permission set.
C29_CurrentPermissionInSet ==
    store.currentPermission # NoPermission =>
        store.currentPermission \in PermissionIds(store.permissions)

\* Two permissions are pending beside a message, and the marker is on the
\* first of them.
C29_Witness ==
    /\ Cardinality(store.permissions) = 2
    /\ store.currentPermission = IdPool[1]
    /\ store.messages # <<>>

(***************************************************************************)
(* Claims about the Bus and the GET /event handler.                        *)
(***************************************************************************)
IsPrefix(a, b) == Len(a) <= Len(b) /\ a = SubSeq(b, 1, Len(a))

\* The frames a connection is owed: server.connected, then one frame per
\* event the Bus delivered to it, in delivery order.
Owed(c) == <<ConnectedFrame>> \o Frames(delivered[c])

\* C4: for each subscriber the frames written to its sink are, in order and
\* one per event, the frames of the events the Bus delivered to it: what is
\* written is a prefix of what is owed, and with a working sink the frames
\* written followed by the writes still pending are exactly what is owed.
C4_PerSubscriberOrder ==
    \A c \in Connections :
        conn[c] # "idle" =>
            /\ IsPrefix(sink[c], Owed(c))
            /\ sinkState[c] = "ok" => sink[c] \o pending[c] = Owed(c)

\* Two different events were delivered while the write of server.connected
\* had not completed, and a connection got all its frames written.
C4_Witness ==
    /\ Len(pending["c1"]) >= 3
    /\ pending["c1"][2] # pending["c1"][3]
    /\ Len(sink["c2"]) = MaxEvents + 1
    /\ sink["c2"][2] # sink["c2"][3]

\* The events published since a connection subscribed.
PublishedSince(c) == SubSeq(published, since[c] + 1, Len(published))

\* C5: a registered subscriber has been delivered every event published since
\* it subscribed, in publish order, and with a working sink has them written
\* or pending in that order, whatever happened to the sink of the other
\* subscriber; a failed sink or an abort of one subscriber removes no other
\* subscriber from the Bus.
C5_FanOutIsolation ==
    \A c \in Connections :
        /\ c \in subs =>
              /\ delivered[c] = PublishedSince(c)
              /\ sinkState[c] = "ok" =>
                    sink[c] \o pending[c]
                        = <<ConnectedFrame>> \o Frames(PublishedSince(c))
        /\ (conn[c] = "streaming" /\ ~aborted[c]) => c \in subs

\* Both subscribed before the first publish; the sink of one failed before
\* any bus frame was written, the other got all N frames written in order.
C5_Witness ==
    /\ Len(published) = MaxEvents
    /\ since["c1"] = 0 /\ since["c2"] = 0
    /\ writeFailed["c1"] /\ Len(sink["c1"]) <= 1
    /\ "c2" \in subs
    /\ sink["c2"] = <<ConnectedFrame>> \o Frames(published)

\* C6: the first frame written to a sink is server.connected, no frame
\* written after it is, and no frame is written ahead of a pending
\* server.connected.
C6_ConnectedFirst ==
    \A c \in Connections :
        /\ sink[c] # <<>> => sink[c][1] = ConnectedFrame
        /\ \A i \in 2..Len(sink[c]) : sink[c][i] # ConnectedFrame
        /\ (conn[c] # "idle" /\ sink[c] = <<>> /\ sinkState[c] = "ok")
              => (pending[c] # <<>> /\ Head(pending[c]) = ConnectedFrame)

\* An event was published right after the connection was accepted, and
\* server.connected still came first on the sink.
C6_Witness ==
    \E c \in Connections :
        /\ since[c] = 0
        /\ Len(delivered[c]) = MaxEvents
        /\ Len(sink[c]) >= 2
        /\ sink[c][1] = ConnectedFrame

\* C7 as stated: once a sink write of a connection has failed, the Bus
\* delivers no further event to that connection.
C7_NoDeliveryAfterWriteFailure ==
    [][\A c \in Connections :
          writeFailed[c] => delivered'[c] = delivered[c]]_vars

\* A write failed without an abort signal and the connection is still
\* registered with the Bus.
C7_Witness ==
    \E c \in Connections : writeFailed[c] /\ ~aborted[c] /\ c \in subs

\* C8: unsub() takes effect at most once per connection, and exactly once
\* when both a sink write failure and the abort signal have occurred.
C8_TeardownExactlyOnce ==
    \A c \in Connections :
        /\ teardowns[c] <= 1
        /\ (writeFailed[c] /\ aborted[c]) => teardowns[c] = 1
        /\ teardowns[c] = 1 => c \notin subs

\* Both orders of the race: the write failed before the abort on one
\* connection, a write pending at the abort failed after it on the other.
C8_Witness ==
    /\ writeFailed["c1"] /\ aborted["c1"] /\ Len(pending["c1"]) >= 1
    /\ writeFailed["c2"] /\ aborted["c2"] /\ pending["c2"] = <<>>
    /\ delivered["c2"] # <<>>

\* C15: a publish can complete in every state, whatever writes are pending
\* and whatever sinks are stuck or broken; it waits for no subscriber.  (The
\* number of events a run publishes is bounded by MaxEvents.)
C15_NonBlockingPublish ==
    Len(published) < MaxEvents => \A ev \in BusEvents : ENABLED Publish(ev)

\* Both subscribers have frames of earlier publishes waiting, one of them
\* on a sink that will never take them, and another event can be published.
C15_Witness ==
    /\ subs = Connections
    /\ Len(published) < MaxEvents
    /\ Len(pending["c1"]) >= 2 /\ sinkState["c1"] = "failed"
    /\ Len(pending["c2"]) >= 2 /\ sinkState["c2"] = "ok"

\* C16 as stated: a publish that finds BufferSize or more frames waiting for
\* a registered subscriber unregisters that subscriber and closes its
\* connection, and delivers the event to every other subscriber.
C16_SlowConsumerDrop ==
    [][\A c \in Connections :
          (published' # published /\ c \in subs
           /\ Len(pending[c]) >= BufferSize)
              => /\ c \notin subs'
                 /\ conn'[c] = "closed"
                 /\ \A d \in subs \ {c} :
                       Len(pending[d]) < BufferSize =>
                           delivered'[d]
                               = Append(delivered[d],
                                        published'[Len(published')])]_vars

\* A subscriber is still registered with more than BufferSize frames
\* waiting, while the other subscriber has every frame written.
C16_Witness ==
    \E c \in Connections :
        /\ c \in subs
        /\ Len(pending[c]) > BufferSize
        /\ \E d \in subs \ {c} : pending[d] = <<>> /\ delivered[d] # <<>>

\* C17: a connection is handed, and has written to its sink, only events
\* published after its callback was registered: what it was handed is a
\* prefix of the events published since then, and the frames on its sink
\* and waiting for it are server.connected followed by frames of those
\* events.
C17_NoReplay ==
    \A c \in Connections :
        /\ IsPrefix(delivered[c], PublishedSince(c))
        /\ IsPrefix(sink[c], <<ConnectedFrame>> \o Frames(PublishedSince(c)))
        /\ Len(sink[c]) + Len(pending[c]) <= 1 + Len(PublishedSince(c))

\* A connection subscribed after two events had been published and
\* written to the other connection; the next event reached both.
C17_Witness ==
    /\ since["c1"] = 0 /\ since["c2"] = 2
    /\ Len(published) = MaxEvents
    /\ Len(sink["c1"]) = MaxEvents + 1
    /\ sink["c2"] = <<ConnectedFrame, Frame(published[MaxEvents])>>

\* C18 as stated: under a fair transport, the i-th event handed to a
\* registered subscriber is eventually written to its sink (after
\* server.connected, as frame i + 1), unless the subscriber is torn down.
C18_EventualDelivery ==
    \A c \in Connections : \A i \in 1..MaxEvents :
        (c \in subs /\ Len(delivered[c]) >= i)
            ~> (Len(sink[c]) > i \/ c \notin subs)

\* A registered subscriber was handed an event after its sink had failed;
\* no abort signal has fired.
C18_Witness ==
    \E c \in Connections :
        /\ c \in subs /\ ~aborted[c]
        /\ sinkState[c] = "failed"
        /\ Len(delivered[c]) > Len(sink[c])

\* C19: unsub() called again leaves the registry as the first call left it,
\* unsub() of a callback that is not registered leaves the registry as it
\* is, and unsub() never unregisters another subscriber; this holds in every
\* state, also while the writes of a publish are pending.
C19_IdempotentUnsubscribe ==
    \A c \in Connections :
        LET once == Unsub(subs, c)
        IN  /\ Unsub(once, c) = once
            /\ c \notin subs => once = subs
            /\ \A d \in Connections \ {c} : d \in once <=> d \in subs

\* A connection was unsubscribed by its abort handler while the writes of a
\* publish to both connections were pending; the other one is registered.
C19_Witness ==
    /\ teardowns["c1"] = 1 /\ "c1" \notin subs
    /\ pending["c1"] # <<>> /\ delivered["c1"] # <<>>
    /\ "c2" \in subs /\ Len(pending["c2"]) >= 2

(***************************************************************************)
(* Claims about front ends that share a Bus.                               *)
(***************************************************************************)
\* A front end that subscribed before the first publish, was never
\* disconnected, and has ingested every frame of every published event.
Settled(c) ==
    /\ c \in subs /\ since[c] = 0
    /\ ~aborted[c] /\ ~writeFailed[c]
    /\ pending[c] = <<>>
    /\ Len(sink[c]) = 1 + Len(published)
    /\ clients[c].ingested = Len(sink[c])

\* C24 as stated: any two settled front ends list the same messages, with
\* the same parts, for every session, and hold the same permissions.
C24_ConvergenceOfAnyTwo ==
    \A c, d \in Connections :
        (Settled(c) /\ Settled(d)) =>
            /\ \A s \in Sessions :
                  listMessages(clients[c].store, s)
                      = listMessages(clients[d].store, s)
            /\ clients[c].store.permissions = clients[d].store.permissions

\* C24 amended: two settled front ends that have the same session open hold
\* equal stores.
C24_ConsumerConvergence ==
    \A c, d \in Connections :
        (Settled(c) /\ Settled(d)
         /\ clients[c].store.session.id = clients[d].store.session.id)
            => clients[c].store = clients[d].store

\* Both front ends have session s1 open and are settled after a message
\* and a part of it were published; the message with its part is in store.
C24_Witness ==
    /\ Settled("c1") /\ Settled("c2")
    /\ Len(published) = 2
    /\ published[1].type = "message.updated"
    /\ published[2].type = "message.part.updated"
    /\ Len(clients["c1"].store.messages) = 1
    /\ clients["c1"].store.messages[1].parts # <<>>
    /\ clients["c2"].store.session.id = "s1"

(***************************************************************************)
(* Claims about script/publish.ts.                                         *)
(***************************************************************************)
\* C25: in a run on the preview channel no step of the release automation
\* (commit, tag, push, GitHub release) is ever performed, and a preview run
\* that ends without an error has updated the versions, installed and built,
\* in that order, and nothing else.
C25_PreviewChannel ==
    Preview(pub.channel) =>
        /\ \A i \in 1..Len(pub.effects) : pub.effects[i] \notin ReleaseAutomation
        /\ ~pub.committed
        /\ (pub.pc = "exit" /\ pub.failedAt = "none")
              => pub.effects = <<"updateVersions", "install", "build">>

\* A preview run has ended without an error.
C25_Witness ==
    /\ Preview(pub.channel)
    /\ pub.pc = "exit"
    /\ pub.failedAt = "none"
    /\ pub.exitCode = 0

\* C30: the steps completed so far are in program order (update versions,
\* install, build, commit and tag, push, GitHub release); once a step has
\* thrown, no step behind it has run, in particular no GitHub release
\* exists, and the run ends with exit code 1.
C30_FailStopPipeline ==
    /\ \A i, j \in 1..Len(pub.effects) :
          i < j => Rank(pub.effects[i]) < Rank(pub.effects[j])
    /\ pub.failedAt # "none" =>
          /\ \A i \in 1..Len(pub.effects) :
                Rank(pub.effects[i]) < Rank(pub.failedAt)
          /\ pub.failedAt \in {"build", "status", "add", "commit", "tag",
                                "revparse", "push"}
                => \A i \in 1..Len(pub.effects) : pub.effects[i] # "release"
          /\ pub.pc \in {"rejected", "exit"}
          /\ pub.pc = "exit" => pub.exitCode = 1
    /\ "release" \in {pub.effects[i] : i \in 1..Len(pub.effects)} =>
          /\ {"updateVersions", "install", "build"}
                \subseteq {pub.effects[i] : i \in 1..Len(pub.effects)}

\* A run committed and tagged, then its push failed, and it has ended.
C30_Witness ==
    /\ pub.failedAt = "push"
    /\ pub.committed
    /\ pub.pc = "exit"

\* The steps the run has completed so far.
Performed == {pub.effects[i] : i \in 1..Len(pub.effects)}

C31_CleanTreeWitness ==
    /\ pub.status = "clean"
    /\ "release" \in Performed
    /\ pub.pc = "exit"

=============================================================================
